---- MODULE Spec2Model ----
(***************************************************************************)
(* react-universal-state: the observable key-value store.                  *)
(*                                                                         *)
(* Specification Spec models createState (the Set-based store): one        *)
(* backend, one subscriber registry (stateSubs), per-key hooks and one     *)
(* wrapped component (WithGlobalState).  React is the environment: it      *)
(* decides when a hook renders, when its effect runs, when a component is  *)
(* constructed, mounted and unmounted, and user code decides when a setter *)
(* is called.  A write is modelled step by step: the setter resolves and   *)
(* commits its value and opens a dispatch (a frame on `stack`); every      *)
(* DispatchStep invokes the next callback of the live Set iteration; what  *)
(* a callback triggers synchronously (React re-rendering inside setState)  *)
(* happens between two DispatchSteps of the frame: in Spec the running     *)
(* observer may unmount; SpecNested adds setter calls made from inside a   *)
(* callback.  Renders, effects and mounts happen between writes.           *)
(* SpecArr models the array-based store (createGlobalStateHook and         *)
(* createGlobalStateHOC), whose registry is backend._stateSubs.            *)
(* SpecUnsub is Spec with a second invocation of an observer's             *)
(* unsubscribe.  SpecStores models several createState calls in one page   *)
(* session over MemoryBackend and LocalStorageBackend objects, the         *)
(* localStorage records, the page-lifecycle events that flush them and a   *)
(* page reload.  SpecMulti models the multi-key hook's composition of its  *)
(* result object, and SpecCallbacks the registry at the level of the       *)
(* callback closures that mounts, re-renders and unmounts add and delete.  *)
(* SpecNarrow is Spec with the wrapped component created for a key list    *)
(* that leaves out a key of defaults.                                      *)
(***************************************************************************)
EXTENDS Integers, Sequences, FiniteSets, TLC

\* ---------------------------------------------------------------- bounds
MaxVal == 1        \* values are 0..MaxVal
MaxNested == 1     \* writes issued from inside one outermost dispatch
CallCap == 2       \* per-dispatch invocation counters saturate here
MaxBackends == 2   \* backend objects constructed in one page session
MaxKeyList == 3    \* length of the key list handed to the multi-key hook
MaxRuns == 3       \* effect runs of one hook, instances of one wrapped component

\* ------------------------------------------------------------ vocabulary
Keys == {"a", "b"}                     \* Object.keys(defaults)
\* the property names an update object or a backend may carry: the keys of
\* defaults and one name that is not a key of defaults
AllKeys == Keys \cup {"z"}
Values == 0 .. MaxVal
Undef == 0 - 1                         \* JavaScript's undefined
MaybeValues == Values \cup {Undef}

Hooks == {"h1", "h2"}                  \* components calling hooks[k]()
Hocs == {"c1"}                         \* WithGlobalState instances
Observers == Hooks \cup Hocs
\* an instance of a component wrapped with a key list that leaves out a key
\* of defaults: hoc(GSC, ['a'])
NarrowHocs == {"c2"}
AllHocs == Hocs \cup NarrowHocs
AllObservers == Hooks \cup AllHocs

HookKey(h) == IF h = "h1" THEN "a" ELSE "b"   \* the k of hooks[k]
\* keys: the key list of the hoc call, defaultKeys when none is passed
HocKeys(c) == IF c \in NarrowHocs THEN {"a"} ELSE Keys

\* partial updates, the objects handed to subscribers: {k: v, ...}
Partials == UNION {[D -> Values] : D \in SUBSET AllKeys}
DefaultsSet == [Keys -> Values]
NoSeed == <<>>

\* -------------------------------------------- localStorage and JSON text
\* A text of localStorage is modelled by what JSON.parse makes of it:
\* no record (getItem returns null), a text that is not JSON, the text
\* "null", or the text of an object, given by its properties.
EmptyMap == [k \in {} |-> 0]
Absent == [t |-> "absent", m |-> EmptyMap]
Malformed == [t |-> "malformed", m |-> EmptyMap]
NullText == [t |-> "null", m |-> EmptyMap]
ObjText(m) == [t |-> "obj", m |-> m]

\* 'rusGlobalState' + id
DefaultName(i) == "rusGlobalState" \o ToString(i)
Names == {DefaultName(i) : i \in 0 .. MaxBackends - 1}

\* the host's lifecycle events the durable backend listens to
Events == {"visibilitychange:hidden", "visibilitychange:visible",
           "pagehide", "beforeunload"}

\* the createState call sites of the page and the defaults each passes
Stores == {"s1", "s2"}
\* the keys whose hook setters the components of the page call
HookedKeys == {"a"}
StoreDefaults(s) == IF s = "s1" THEN [k \in Keys |-> 0] ELSE [k \in Keys |-> MaxVal]
NoStore == [persist |-> "none", given |-> 0, backend |-> 0,
            mounted |-> FALSE, heard |-> FALSE]
NoLoad == [found |-> "none", threw |-> FALSE, isnull |-> FALSE, empty |-> FALSE]

\* hook(keys) was not called yet
NoMulti == [called |-> FALSE, key |-> <<>>, sorted |-> <<>>, ret |-> <<>>]

Min(x, y) == IF x < y THEN x ELSE y
Range(s) == {s[i] : i \in 1 .. Len(s)}
IndexOf(s, x) == IF x \in Range(s) THEN CHOOSE i \in 1 .. Len(s) : s[i] = x ELSE 0

VARIABLES
  phase,      \* "new" before createState ran, "ready" after
  gs,         \* MemoryBackend.gs: property name -> value or undefined
  seed,       \* history: backend content and defaults at construction,
              \* kept until the first write
  lastWrite,  \* history: per key, the value the most recent write resolved
              \* (before any write: the value construction left)
  stateSubs,  \* the Set of callbacks, in insertion order
  status,     \* per observer: "none", "rendered", "subscribed", "unmounted",
              \* "unmountedTwice" (its unsubscribe was invoked again)
  state,      \* per hook: the React state cell of useState
  curState,   \* per hook: curState.current
  cstate,     \* per wrapped component: this.state (aliased by prevState)
  stack,      \* the dispatch loops in progress, innermost last
  nested,     \* number of writes issued from inside the outermost dispatch
  subs,       \* array store: backend._stateSubs, the array of callbacks
  ind,        \* array store: per observer, the index recorded at subscription
  rendered,   \* array store: per hook, `state` as captured by the latest render
  first,      \* array store: per hook, `state` as captured by the subscribed cb
  ls,         \* stores: window.localStorage, record name -> text
  objs,       \* stores: the backend objects of this page, in construction order
  lsid,       \* stores: LocalStorageBackend.id
  stores,     \* stores: per createState call site, the store it returned
  load,       \* stores: history, the latest LocalStorageBackend construction
  order,      \* history: the subscribed observers, in the order in which
              \* their registered callbacks were added
  multi,      \* multi-key hook: the latest call of hook(keys) and its result
  cbs,        \* callbacks: the Set of callback closures, in insertion order
  cur         \* callbacks: per observer, its number of effect runs and mounts

vars == <<phase, gs, seed, lastWrite, stateSubs, status, state, curState,
          cstate, stack, nested, subs, ind, rendered, first,
          ls, objs, lsid, stores, load, order, multi, cbs, cur>>

\* the variables of the multi-key hook and of the callback-level registry
sideVars == <<multi, cbs, cur>>

appVars == <<phase, gs, seed, lastWrite, stateSubs, status, state, curState,
             cstate, stack, nested, subs, ind, rendered, first, order>>

storeVars == <<ls, objs, lsid, stores, load>>

arrVars == <<subs, ind, rendered, first>>

setVars == <<seed, lastWrite, stateSubs, curState, stack, nested, order>>

\* --------------------------------------------------------------- backend
BackendGet(g, k) == g[k]

\* a set that stores only into an empty slot
BackendSetIfAbsent(g, k, v) == IF g[k] = Undef THEN [g EXCEPT ![k] = v] ELSE g

\* a set that replaces the whole mapping by {k: v}
BackendSetReplace(g, k, v) == [j \in DOMAIN g |-> IF j = k THEN v ELSE Undef]

BackendSet(g, k, v) == [g EXCEPT ![k] = v]

\* --------------------------------------------------------------- the Set
\* a delete that drops the oldest entry instead of the given one
SetDeleteOldest(s, x) == IF s = <<>> THEN s ELSE Tail(s)

\* a delete by position, splice(indexOf(x), 1), which drops the last entry
\* when x is not there
SetDeleteOrLast(s, x) ==
  IF x \in Range(s) THEN SelectSeq(s, LAMBDA y : y # x)
  ELSE SubSeq(s, 1, Len(s) - 1)

SetDelete(s, x) == SelectSeq(s, LAMBDA y : y # x)

\* a registry that iterates the newest entry first
SetAddFront(s, x) == IF x \in Range(s) THEN s ELSE <<x>> \o s

SetAdd(s, x) == IF x \in Range(s) THEN s ELSE Append(s, x)

\* ------------------------------------------------------------- createState
\* a seeding that writes every default, whatever the backend holds
SeedDefaultsClobber(g, defaults, todo) ==
  [k \in DOMAIN g |-> IF k \in todo THEN defaults[k] ELSE g[k]]

\* a construction that seeds nothing
SeedDefaultsNone(g, defaults, todo) == g

RECURSIVE SeedDefaults(_, _, _)
SeedDefaults(g, defaults, todo) ==
  IF todo = {} THEN g
  ELSE LET k == CHOOSE x \in todo : TRUE
           g2 == IF BackendGet(g, k) = Undef
                 THEN BackendSet(g, k, defaults[k])
                 ELSE g
       IN SeedDefaults(g2, defaults, todo \ {k})

Init ==
  /\ phase = "new"
  /\ gs \in {g \in [AllKeys -> MaybeValues] : g["z"] = Undef}
  /\ seed = NoSeed
  /\ lastWrite = [k \in AllKeys |-> Undef]
  /\ stateSubs = <<>>
  /\ status = [o \in AllObservers |-> "none"]
  /\ state = [h \in Hooks |-> Undef]
  /\ curState = [h \in Hooks |-> Undef]
  /\ cstate = [c \in AllHocs |-> [k \in Keys |-> Undef]]
  /\ stack = <<>>
  /\ nested = 0
  /\ subs = <<>>
  /\ ind = [o \in AllObservers |-> 0]
  /\ rendered = [h \in Hooks |-> Undef]
  /\ first = [h \in Hooks |-> Undef]
  /\ ls = [n \in Names |-> Absent]
  /\ objs = <<>>
  /\ lsid = 0
  /\ stores = [s \in Stores |-> NoStore]
  /\ load = NoLoad
  /\ order = <<>>
  /\ multi = NoMulti
  /\ cbs = <<>>
  /\ cur = [o \in AllObservers |-> 0]

CreateState(defaults) ==
  /\ phase = "new"
  /\ gs' = SeedDefaults(gs, defaults, DOMAIN defaults)
  /\ seed' = <<[prior |-> gs, defaults |-> defaults]>>
  /\ phase' = "ready"
  /\ lastWrite' = gs'
  /\ UNCHANGED arrVars
  /\ UNCHANGED order
  /\ UNCHANGED storeVars
  /\ UNCHANGED sideVars
  /\ UNCHANGED <<stateSubs, status, state, curState, cstate, stack, nested>>

\* ------------------------------------------------------ dispatch frames
Top == stack[Len(stack)]

\* no dispatch is in progress: the host runs event handlers, renders, effects
Idle == phase = "ready" /\ stack = <<>>

\* The innermost dispatch has invoked the callback of observer o, that
\* callback has called setState, and React re-renders o's component inside
\* that call: the component may be unmounted, and its lifecycle code may
\* call the setter it holds.
Running(o) == IF stack = <<>> THEN FALSE ELSE Top.hot /\ Top.run = o

CanAct(o) == Idle \/ (phase = "ready" /\ Running(o))

\* a setter called by lifecycle code of the component being re-rendered
CanWriteNested(o) == phase = "ready" /\ Running(o) /\ nested < MaxNested

NestedAfterWrite == IF stack = <<>> THEN nested ELSE nested + 1

NoCalls == [o \in AllObservers |-> 0]

\* update, pos, run and hot are the loop's state: the update object, the
\* iterator, the observer whose callback was invoked last and whether that
\* callback called setState.  The other fields are history: kind and pre
\* (the backend's value of the written key before the call), start (the
\* registry when the loop began), calls (invocations per observer) and mut
\* (who changed the registry since the loop began: nobody, only an observer
\* from inside its own callback, or another one), changed (the keys
\* whose value in the backend the write changed) and asked (the property
\* names of the object the caller's argument resolved to, the name "null"
\* standing for null).  Once mut is "other" the
\* start and calls of the loop are no longer read and are dropped.
NewFrame(kind, update, pre, asked) ==
  [kind |-> kind, update |-> update, pre |-> pre, asked |-> asked,
   pos |-> 0, run |-> "", hot |-> FALSE,
   start |-> stateSubs, calls |-> NoCalls, mut |-> "none",
   changed |-> {k \in DOMAIN update : BackendGet(gs, k) # update[k]}]

Forget(f) == [f EXCEPT !.mut = "other", !.start = <<>>, !.calls = NoCalls]

\* an iteration by index, which does not follow the entries that shift down
FrameDeleteNoShift(f, o) ==
  IF IndexOf(stateSubs, o) = 0 THEN f
  ELSE IF o = f.run /\ f.mut # "other" THEN [f EXCEPT !.mut = "self"] ELSE Forget(f)

\* a registry deletion seen by a running iteration: the entries before
\* the iterator shift down
FrameDelete(f, o) ==
  LET i == IndexOf(stateSubs, o) IN
  IF i = 0 THEN f
  ELSE LET g == [f EXCEPT !.pos = IF i <= @ THEN @ - 1 ELSE @]
       IN IF o = f.run /\ f.mut # "other" THEN [g EXCEPT !.mut = "self"] ELSE Forget(g)

StackDelete(o) == [i \in 1 .. Len(stack) |-> FrameDelete(stack[i], o)]

\* ------------------------------------------------------------ per-key hook
HookRender(h) ==
  /\ Idle
  /\ status[h] = "none"
  /\ state' = [state EXCEPT ![h] = BackendGet(gs, HookKey(h))]
  /\ curState' = [curState EXCEPT ![h] = BackendGet(gs, HookKey(h))]
  /\ status' = [status EXCEPT ![h] = "rendered"]
  /\ UNCHANGED arrVars
  /\ UNCHANGED order
  /\ UNCHANGED storeVars
  /\ UNCHANGED sideVars
  /\ UNCHANGED <<phase, gs, seed, lastWrite, stateSubs, cstate, stack, nested>>

\* useEffect without a dependency list: after every render the previous
\* cleanup runs (delete the old cb) and the effect adds a fresh cb
HookEffect(h) ==
  /\ Idle
  /\ status[h] \in {"rendered", "subscribed"}
  /\ stateSubs' = SetAdd(SetDelete(stateSubs, h), h)
  /\ order' = Append(SelectSeq(order, LAMBDA y : y # h), h)
  /\ status' = [status EXCEPT ![h] = "subscribed"]
  /\ UNCHANGED arrVars
  /\ UNCHANGED storeVars
  /\ UNCHANGED sideVars
  /\ UNCHANGED <<phase, gs, seed, lastWrite, state, curState, cstate, stack, nested>>

\* unmount: the cleanup runs and the component instance, with its state
\* cell and ref, is discarded
HookCleanup(h) ==
  /\ CanAct(h)
  /\ status[h] = "subscribed"
  /\ stateSubs' = SetDelete(stateSubs, h)
  /\ order' = SelectSeq(order, LAMBDA y : y # h)
  /\ stack' = StackDelete(h)
  /\ status' = [status EXCEPT ![h] = "unmounted"]
  /\ state' = [state EXCEPT ![h] = Undef]
  /\ curState' = [curState EXCEPT ![h] = Undef]
  /\ UNCHANGED arrVars
  /\ UNCHANGED storeVars
  /\ UNCHANGED sideVars
  /\ UNCHANGED <<phase, gs, seed, lastWrite, cstate, nested>>

\* a cb that only understands single-key updates
HookCbSingleKey(h, old, v) ==
  IF DOMAIN v = {HookKey(h)} THEN v[HookKey(h)] ELSE old

\* cb of the hook: (v) => { if (v.hasOwnProperty(k)) { curState.current = v[k]; setState(v[k]) } }
HookCbState(h, old, v) ==
  IF HookKey(h) \in DOMAIN v THEN v[HookKey(h)] ELSE old

HookSetterResolve(h, val) ==
  IF val.fn THEN curState[h] + 1 ELSE val.lit

HookSetterCall(h, val) ==
  /\ status[h] \in {"rendered", "subscribed"}
  /\ LET k == HookKey(h)
         newVal == HookSetterResolve(h, val)
     IN /\ newVal \in Values
        /\ curState' = [curState EXCEPT ![h] = newVal]
        /\ gs' = BackendSet(gs, k, newVal)
        /\ lastWrite' = [lastWrite EXCEPT ![k] = newVal]
        /\ stack' = Append(stack,
              NewFrame(IF val.fn THEN "hookfn" ELSE "hook",
                       [x \in {k} |-> newVal], BackendGet(gs, k), {k}))
  /\ seed' = NoSeed
  /\ nested' = NestedAfterWrite
  /\ UNCHANGED arrVars
  /\ UNCHANGED order
  /\ UNCHANGED storeVars
  /\ UNCHANGED sideVars
  /\ UNCHANGED <<phase, stateSubs, status, state, cstate>>

HookSetter(h, val) == Idle /\ HookSetterCall(h, val)

NestedHookSetter(h, val) == CanWriteNested(h) /\ HookSetterCall(h, val)

\* val is a literal or the transformer prev => prev + 1
HookInputs == {[fn |-> TRUE]} \cup {[fn |-> FALSE, lit |-> v] : v \in Values}

\* ------------------------------------------------------ WithGlobalState
HocConstruct(c) ==
  /\ Idle
  /\ status[c] = "none"
  /\ cstate' = [cstate EXCEPT ![c] =
        [k \in Keys |-> IF k \in HocKeys(c) THEN BackendGet(gs, k) ELSE Undef]]
  /\ status' = [status EXCEPT ![c] = "rendered"]
  /\ UNCHANGED arrVars
  /\ UNCHANGED order
  /\ UNCHANGED storeVars
  /\ UNCHANGED sideVars
  /\ UNCHANGED <<phase, gs, seed, lastWrite, stateSubs, state, curState, stack, nested>>

ComponentDidMount(c) ==
  /\ Idle
  /\ status[c] = "rendered"
  /\ stateSubs' = SetAdd(stateSubs, c)
  /\ order' = Append(SelectSeq(order, LAMBDA y : y # c), c)
  /\ status' = [status EXCEPT ![c] = "subscribed"]
  /\ UNCHANGED arrVars
  /\ UNCHANGED storeVars
  /\ UNCHANGED sideVars
  /\ UNCHANGED <<phase, gs, seed, lastWrite, state, curState, cstate, stack, nested>>

ComponentWillUnmount(c) ==
  /\ CanAct(c)
  /\ status[c] = "subscribed"
  /\ stateSubs' = SetDelete(stateSubs, c)
  /\ order' = SelectSeq(order, LAMBDA y : y # c)
  /\ stack' = StackDelete(c)
  /\ status' = [status EXCEPT ![c] = "unmounted"]
  /\ cstate' = [cstate EXCEPT ![c] = [k \in Keys |-> Undef]]
  /\ UNCHANGED arrVars
  /\ UNCHANGED storeVars
  /\ UNCHANGED sideVars
  /\ UNCHANGED <<phase, gs, seed, lastWrite, state, curState, nested>>

\* setLocalState: copy every watched key of the update that differs
SetLocalState(c, cs, globalUpdate) ==
  [k \in Keys |->
     IF k \in HocKeys(c) /\ k \in DOMAIN globalUpdate /\ globalUpdate[k] # cs[k]
     THEN globalUpdate[k] ELSE cs[k]]

\* newState is a literal partial or the transformer prevState => ({k: prevState[k] + 1})
HocResolve(c, newState) ==
  IF newState.fn
  THEN [x \in {newState.key} |-> cstate[c][newState.key] + 1]
  ELSE newState.lit

\* JavaScript's null as the value newState resolves to: it is no object and
\* is kept apart from every partial update
Null == [k \in {"null"} |-> Undef]

\* a setGlobalState that commits every property of the object it is given
TargetUpdateAll(c, newGlobalState) ==
  IF newGlobalState = Null THEN EmptyMap ELSE newGlobalState

\* if (newGlobalState != null) for (const k of keys)
\*   if (newGlobalState.hasOwnProperty(k)) targetUpdate[k] = newGlobalState[k]
TargetUpdate(c, newGlobalState) ==
  IF newGlobalState = Null THEN EmptyMap
  ELSE [k \in (HocKeys(c) \cap DOMAIN newGlobalState) |-> newGlobalState[k]]

RECURSIVE CommitAll(_, _, _)
CommitAll(g, targetUpdate, todo) ==
  IF todo = {} THEN g
  ELSE LET k == CHOOSE x \in todo : TRUE
       IN CommitAll(BackendSet(g, k, targetUpdate[k]), targetUpdate, todo \ {k})

SetGlobalStateCall(c, newState) ==
  /\ status[c] \in {"rendered", "subscribed"}
  /\ LET newGlobalState == HocResolve(c, newState)
         targetUpdate == TargetUpdate(c, newGlobalState)
     IN /\ newGlobalState # Null =>
             \A k \in DOMAIN newGlobalState : newGlobalState[k] \in Values
        /\ gs' = CommitAll(gs, targetUpdate, DOMAIN targetUpdate)
        /\ cstate' = [cstate EXCEPT ![c] =
              [k \in Keys |-> IF k \in DOMAIN targetUpdate
                              THEN targetUpdate[k] ELSE @[k]]]
        /\ lastWrite' = [k \in AllKeys |-> IF k \in DOMAIN targetUpdate
                                        THEN targetUpdate[k] ELSE lastWrite[k]]
        /\ stack' = Append(stack,
              NewFrame(IF newState.fn THEN "hocfn" ELSE "hoc", targetUpdate, Undef,
                       DOMAIN newGlobalState))
  /\ seed' = NoSeed
  /\ nested' = NestedAfterWrite
  /\ UNCHANGED arrVars
  /\ UNCHANGED order
  /\ UNCHANGED storeVars
  /\ UNCHANGED sideVars
  /\ UNCHANGED <<phase, stateSubs, status, state, curState>>

SetGlobalState(c, newState) == Idle /\ SetGlobalStateCall(c, newState)

NestedSetGlobalState(c, newState) == CanWriteNested(c) /\ SetGlobalStateCall(c, newState)

HocInputs ==
  {[fn |-> FALSE, lit |-> p] : p \in Partials}
    \cup {[fn |-> TRUE, key |-> k] : k \in Keys}

\* ------------------------------------------------------------ dispatch
\* does the callback of o call setState when handed update u
CallsSetState(o, u) ==
  IF o \in Hooks THEN HookKey(o) \in DOMAIN u
  ELSE \E k \in HocKeys(o) : k \in DOMAIN u /\ u[k] # cstate[o][k]

\* for (const f of stateSubs) f(update): one iteration of the innermost loop
DispatchStep ==
  /\ stack # <<>>
  /\ Top.pos < Len(stateSubs)
  /\ LET f == Top
         o == stateSubs[f.pos + 1]
         g == [f EXCEPT !.pos = @ + 1, !.run = o, !.hot = CallsSetState(o, f.update)]
     IN /\ stack' = [stack EXCEPT ![Len(stack)] =
              IF f.mut = "other" THEN g
              ELSE [g EXCEPT !.calls[o] = Min(@ + 1, CallCap)]]
        /\ IF o \in Hooks
           THEN /\ curState' = [curState EXCEPT ![o] = HookCbState(o, @, f.update)]
                /\ state' = [state EXCEPT ![o] = HookCbState(o, @, f.update)]
                /\ UNCHANGED cstate
           ELSE /\ cstate' = [cstate EXCEPT ![o] = SetLocalState(o, @, f.update)]
                /\ UNCHANGED <<state, curState>>
  /\ UNCHANGED arrVars
  /\ UNCHANGED order
  /\ UNCHANGED storeVars
  /\ UNCHANGED sideVars
  /\ UNCHANGED <<phase, gs, seed, lastWrite, stateSubs, status, nested>>

\* a loop that stops after its first callback
LoopDoneEarly(f) == f.pos >= 1 \/ f.pos = Len(stateSubs)

\* the for...of loop of frame f has no entry left
LoopDone(f) == f.pos = Len(stateSubs)

\* the loop is exhausted: the setter returns to its caller
SetterReturn ==
  /\ stack # <<>>
  /\ LoopDone(Top)
  /\ stack' = SubSeq(stack, 1, Len(stack) - 1)
  /\ nested' = IF Len(stack) = 1 THEN 0 ELSE nested
  /\ UNCHANGED arrVars
  /\ UNCHANGED order
  /\ UNCHANGED storeVars
  /\ UNCHANGED sideVars
  /\ UNCHANGED <<phase, gs, seed, lastWrite, stateSubs, status, state,
                 curState, cstate>>

Next ==
  \/ \E d \in DefaultsSet : CreateState(d)
  \/ \E h \in Hooks : HookRender(h)
  \/ \E h \in Hooks : HookEffect(h)
  \/ \E h \in Hooks : HookCleanup(h)
  \/ \E h \in Hooks, val \in HookInputs : HookSetter(h, val)
  \/ \E c \in Hocs : HocConstruct(c)
  \/ \E c \in Hocs : ComponentDidMount(c)
  \/ \E c \in Hocs : ComponentWillUnmount(c)
  \/ \E c \in Hocs, n \in HocInputs : SetGlobalState(c, n)
  \/ DispatchStep
  \/ SetterReturn

Spec == Init /\ [][Next]_vars

\* the same store when lifecycle code run by a callback calls setters
NextNested ==
  \/ Next
  \/ \E h \in Hooks, val \in HookInputs : NestedHookSetter(h, val)
  \/ \E c \in Hocs, n \in HocInputs : NestedSetGlobalState(c, n)

SpecNested == Init /\ [][NextNested]_vars

\* the same store when an unsubscribe is invoked a second time: the cleanup
\* of the hook's effect, which deletes the cb it closes over, or
\* componentWillUnmount, at any moment, a dispatch in progress or not
HookCleanupAgain(h) ==
  /\ phase = "ready"
  /\ status[h] = "unmounted"
  /\ stateSubs' = SetDelete(stateSubs, h)
  /\ order' = SelectSeq(order, LAMBDA y : y # h)
  /\ stack' = StackDelete(h)
  /\ status' = [status EXCEPT ![h] = "unmountedTwice"]
  /\ UNCHANGED arrVars
  /\ UNCHANGED storeVars
  /\ UNCHANGED sideVars
  /\ UNCHANGED <<phase, gs, seed, lastWrite, state, curState, cstate, nested>>

ComponentWillUnmountAgain(c) ==
  /\ phase = "ready"
  /\ status[c] = "unmounted"
  /\ stateSubs' = SetDelete(stateSubs, c)
  /\ order' = SelectSeq(order, LAMBDA y : y # c)
  /\ stack' = StackDelete(c)
  /\ status' = [status EXCEPT ![c] = "unmountedTwice"]
  /\ UNCHANGED arrVars
  /\ UNCHANGED storeVars
  /\ UNCHANGED sideVars
  /\ UNCHANGED <<phase, gs, seed, lastWrite, state, curState, cstate, nested>>

NextUnsub ==
  \/ Next
  \/ \E h \in Hooks : HookCleanupAgain(h)
  \/ \E c \in Hocs : ComponentWillUnmountAgain(c)

SpecUnsub == Init /\ [][NextUnsub]_vars

\* the same store when the wrapped component was created for a key list
\* that leaves out a key of defaults, and setGlobalState is handed any
\* partial update, null, or a transformer over a key of its list
NarrowInputs(c) ==
  {[fn |-> FALSE, lit |-> p] : p \in Partials \cup {Null}}
    \cup {[fn |-> TRUE, key |-> k] : k \in HocKeys(c)}

NextNarrow ==
  \/ \E d \in DefaultsSet : CreateState(d)
  \/ \E h \in Hooks : HookRender(h)
  \/ \E h \in Hooks : HookEffect(h)
  \/ \E h \in Hooks : HookCleanup(h)
  \/ \E h \in Hooks, val \in HookInputs : HookSetter(h, val)
  \/ \E c \in NarrowHocs : HocConstruct(c)
  \/ \E c \in NarrowHocs : ComponentDidMount(c)
  \/ \E c \in NarrowHocs : ComponentWillUnmount(c)
  \/ \E c \in NarrowHocs : \E n \in NarrowInputs(c) : SetGlobalState(c, n)
  \/ DispatchStep
  \/ SetterReturn

SpecNarrow == Init /\ [][NextNarrow]_vars

\* =========================================================================
\* The array-based store: createGlobalStateHook and createGlobalStateHOC
\* over one backend object.  The callbacks live in the array
\* backend._stateSubs; an observer records the array's length when it
\* subscribes and splices at that index when it unsubscribes.  A write runs
\* to completion: it commits and calls every entry of the array in order.
\* =========================================================================
\* Array.prototype.splice(i, 1) with a 0-based index i
Splice(s, i) ==
  IF i + 1 <= Len(s) THEN SubSeq(s, 1, i) \o SubSeq(s, i + 2, Len(s)) ELSE s

CreateGlobalState(defaults) ==
  /\ phase = "new"
  /\ gs' = SeedDefaults(gs, defaults, DOMAIN defaults)
  /\ phase' = "ready"
  /\ UNCHANGED <<status, state, cstate>>
  /\ UNCHANGED setVars
  /\ UNCHANGED arrVars
  /\ UNCHANGED storeVars
  /\ UNCHANGED sideVars

ArrHookRender(h) ==
  /\ phase = "ready"
  /\ status[h] = "none"
  /\ state' = [state EXCEPT ![h] = BackendGet(gs, HookKey(h))]
  /\ rendered' = [rendered EXCEPT ![h] = BackendGet(gs, HookKey(h))]
  /\ status' = [status EXCEPT ![h] = "rendered"]
  /\ UNCHANGED <<phase, gs, cstate, subs, ind, first>>
  /\ UNCHANGED setVars
  /\ UNCHANGED storeVars
  /\ UNCHANGED sideVars

\* useEffect(..., []): runs once, after the first render
ArrHookEffect(h) ==
  /\ phase = "ready"
  /\ status[h] = "rendered"
  /\ ind' = [ind EXCEPT ![h] = Len(subs)]
  /\ subs' = Append(subs, h)
  /\ first' = [first EXCEPT ![h] = rendered[h]]
  /\ status' = [status EXCEPT ![h] = "subscribed"]
  /\ UNCHANGED <<phase, gs, state, cstate, rendered>>
  /\ UNCHANGED setVars
  /\ UNCHANGED storeVars
  /\ UNCHANGED sideVars

\* a later render: the returned setter now closes over the current state
ArrHookRerender(h) ==
  /\ phase = "ready"
  /\ status[h] \in {"rendered", "subscribed"}
  /\ rendered[h] # state[h]
  /\ rendered' = [rendered EXCEPT ![h] = state[h]]
  /\ UNCHANGED <<phase, gs, status, state, cstate, subs, ind, first>>
  /\ UNCHANGED setVars
  /\ UNCHANGED storeVars
  /\ UNCHANGED sideVars

ArrHookCleanup(h) ==
  /\ phase = "ready"
  /\ status[h] = "subscribed"
  /\ subs' = Splice(subs, ind[h])
  /\ status' = [status EXCEPT ![h] = "unmounted"]
  /\ state' = [state EXCEPT ![h] = Undef]
  /\ rendered' = [rendered EXCEPT ![h] = Undef]
  /\ first' = [first EXCEPT ![h] = Undef]
  /\ UNCHANGED <<phase, gs, cstate, ind>>
  /\ UNCHANGED setVars
  /\ UNCHANGED storeVars
  /\ UNCHANGED sideVars

\* the constructor reads the backend and subscribes
ArrHocConstruct(c) ==
  /\ phase = "ready"
  /\ status[c] = "none"
  /\ cstate' = [cstate EXCEPT ![c] =
        [k \in Keys |-> IF k \in HocKeys(c) THEN BackendGet(gs, k) ELSE Undef]]
  /\ ind' = [ind EXCEPT ![c] = Len(subs)]
  /\ subs' = Append(subs, c)
  /\ status' = [status EXCEPT ![c] = "subscribed"]
  /\ UNCHANGED <<phase, gs, state, rendered, first>>
  /\ UNCHANGED setVars
  /\ UNCHANGED storeVars
  /\ UNCHANGED sideVars

ArrHocWillUnmount(c) ==
  /\ phase = "ready"
  /\ status[c] = "subscribed"
  /\ subs' = Splice(subs, ind[c])
  /\ status' = [status EXCEPT ![c] = "unmounted"]
  /\ cstate' = [cstate EXCEPT ![c] = [k \in Keys |-> Undef]]
  /\ UNCHANGED <<phase, gs, state, ind, rendered, first>>
  /\ UNCHANGED setVars
  /\ UNCHANGED storeVars
  /\ UNCHANGED sideVars

\* cb of the hook: v => { if (v.hasOwnProperty(k) && v[k] !== state) setState(v[k]) }
ArrHookCb(h, old, v) ==
  IF HookKey(h) \in DOMAIN v /\ v[HookKey(h)] # first[h] THEN v[HookKey(h)] ELSE old

\* setLocalState: copy every key of this.state that the update has
ArrSetLocalState(c, cs, globalUpdate) ==
  [k \in Keys |->
     IF k \in HocKeys(c) /\ k \in DOMAIN globalUpdate THEN globalUpdate[k] ELSE cs[k]]

\* for (const f of backend._stateSubs) f(update), entries i .. Len(subs);
\* the callback of an observer that is gone has no instance left to change
RECURSIVE ArrDispatch(_, _, _)
ArrDispatch(i, u, loc) ==
  IF i > Len(subs) THEN loc
  ELSE LET o == subs[i]
           loc2 == IF status[o] # "subscribed" THEN loc
                   ELSE IF o \in Hooks
                   THEN [loc EXCEPT !.state[o] = ArrHookCb(o, @, u)]
                   ELSE [loc EXCEPT !.cstate[o] = ArrSetLocalState(o, @, u)]
       IN ArrDispatch(i + 1, u, loc2)

ArrHookSetter(h, val) ==
  /\ phase = "ready"
  /\ status[h] \in {"rendered", "subscribed"}
  /\ LET k == HookKey(h)
         newVal == IF val.fn THEN rendered[h] + 1 ELSE val.lit
         loc == ArrDispatch(1, [x \in {k} |-> newVal], [state |-> state, cstate |-> cstate])
     IN /\ newVal \in Values
        /\ gs' = BackendSet(gs, k, newVal)
        /\ state' = loc.state
        /\ cstate' = loc.cstate
  /\ UNCHANGED <<phase, status>>
  /\ UNCHANGED setVars
  /\ UNCHANGED arrVars
  /\ UNCHANGED storeVars
  /\ UNCHANGED sideVars

ArrSetGlobalState(c, newState) ==
  /\ phase = "ready"
  /\ status[c] = "subscribed"
  /\ LET newGlobalState == HocResolve(c, newState)
         loc == ArrDispatch(1, newGlobalState, [state |-> state, cstate |-> cstate])
     IN /\ \A k \in DOMAIN newGlobalState : newGlobalState[k] \in Values
        /\ gs' = CommitAll(gs, newGlobalState, DOMAIN newGlobalState)
        /\ state' = loc.state
        /\ cstate' = loc.cstate
  /\ UNCHANGED <<phase, status>>
  /\ UNCHANGED setVars
  /\ UNCHANGED arrVars
  /\ UNCHANGED storeVars
  /\ UNCHANGED sideVars

NextArr ==
  \/ \E d \in DefaultsSet : CreateGlobalState(d)
  \/ \E h \in Hooks : ArrHookRender(h)
  \/ \E h \in Hooks : ArrHookEffect(h)
  \/ \E h \in Hooks : ArrHookRerender(h)
  \/ \E h \in Hooks : ArrHookCleanup(h)
  \/ \E h \in Hooks, val \in HookInputs : ArrHookSetter(h, val)
  \/ \E c \in Hocs : ArrHocConstruct(c)
  \/ \E c \in Hocs : ArrHocWillUnmount(c)
  \/ \E c \in Hocs, n \in HocInputs : ArrSetGlobalState(c, n)

SpecArr == Init /\ [][NextArr]_vars

\* =========================================================================
\* Backends and stores: createBackend, MemoryBackend, LocalStorageBackend
\* and several createState calls in one page.  A backend object holds its
\* mapping gs in memory; a durable one loads it from its localStorage
\* record when constructed and writes it back when the host fires one of
\* its flush events.  Every createState call has its own registry; here a
\* store has at most one subscriber, and a write through a store runs to
\* completion.  Two fields are history of the latest step: load (the
\* LocalStorageBackend construction it performed, if any) and a store's
\* heard (the latest write invoked the store's subscriber).
\* =========================================================================
\* a serialization that writes no property
StringifyNothing(g) == ObjText(EmptyMap)

\* JSON.stringify of a mapping: the properties whose value is undefined
\* are left out
Stringify(g) == ObjText([k \in {x \in DOMAIN g : g[x] # Undef} |-> g[k]])

\* the mapping JSON.parse returns for the text of an object; reading a
\* property it does not have gives undefined
Parse(text) == [k \in AllKeys |-> IF k \in DOMAIN text.m THEN text.m[k] ELSE Undef]

\* this.gs = JSON.parse(localStorage.getItem(keyName) || '{}')
LSLoad(text) ==
  IF text.t = "absent"
  THEN [threw |-> FALSE, isnull |-> FALSE, gs |-> Parse(ObjText(EmptyMap))]
  ELSE IF text.t = "malformed"
  THEN [threw |-> TRUE, isnull |-> FALSE, gs |-> Parse(ObjText(EmptyMap))]
  ELSE IF text.t = "null"
  THEN [threw |-> FALSE, isnull |-> TRUE, gs |-> Parse(ObjText(EmptyMap))]
  ELSE [threw |-> FALSE, isnull |-> FALSE, gs |-> Parse(text)]

\* a backend object; two fields are history: setKeys, the keys set through
\* set() since construction, and auto, the constructor was called without
\* a name
NewObject(kind, name, r) ==
  [kind |-> kind, name |-> name, gs |-> r.gs, isnull |-> r.isnull,
   setKeys |-> {}, auto |-> FALSE]

MemoryObject ==
  NewObject("memory", "", [gs |-> [k \in AllKeys |-> Undef], isnull |-> FALSE])

LoadRecord(name, r) ==
  [found |-> ls[name].t, threw |-> r.threw, isnull |-> r.isnull,
   empty |-> \A k \in AllKeys : r.gs[k] = Undef]

\* new LocalStorageBackend(keyName) with an explicit name
LSNew(name) ==
  /\ Len(objs) < MaxBackends
  /\ LET r == LSLoad(ls[name])
     IN /\ objs' = IF r.threw THEN objs ELSE Append(objs, NewObject("ls", name, r))
        /\ load' = LoadRecord(name, r)
  /\ UNCHANGED <<ls, lsid, stores>>
  /\ UNCHANGED appVars
  /\ UNCHANGED sideVars

\* createBackend: a new MemoryBackend, a new LocalStorageBackend with the
\* next default name, or the object it was given
CreateBackend(persist) ==
  IF persist = "false" THEN "memory" ELSE IF persist = "true" THEN "ls" ELSE "given"

\* a seeding that assigns every default over what the backend holds
SeedObjectAssign(o, defaults, todo) ==
  [o EXCEPT !.gs = [k \in AllKeys |-> IF k \in todo THEN defaults[k] ELSE o.gs[k]],
            !.setKeys = @ \cup todo]

\* backend.set(k, defaults[k]) for every key of todo that the backend lacks
SeedObject(o, defaults, todo) ==
  LET seeded == {k \in todo : BackendGet(o.gs, k) = Undef}
  IN [o EXCEPT !.gs = SeedDefaults(@, defaults, todo),
               !.setKeys = @ \cup seeded]

\* createState(defaults, persist) at call site s; given is the index of the
\* backend object passed as persist (0 when persist is a boolean).  A
\* LocalStorageBackend constructor that throws leaves no store; the default
\* parameter has advanced the id all the same.
StoreCreate(s, persist, given) ==
  /\ stores[s] = NoStore
  /\ LET made == CreateBackend(persist)
         defaults == StoreDefaults(s)
         r == LSLoad(ls[DefaultName(lsid)])
         o == IF made = "memory" THEN MemoryObject
              ELSE IF made = "ls"
              THEN [NewObject("ls", DefaultName(lsid), r) EXCEPT !.auto = TRUE]
              ELSE objs[given]
         b == IF made = "given" THEN given ELSE Len(objs) + 1
     IN /\ made # "given" => (given = 0 /\ Len(objs) < MaxBackends)
        /\ made = "given" => (given \in 1 .. Len(objs) /\ ~objs[given].isnull)
        /\ made = "ls" => lsid < MaxBackends
        /\ lsid' = IF made = "ls" THEN lsid + 1 ELSE lsid
        /\ load' = IF made = "ls" THEN LoadRecord(DefaultName(lsid), r) ELSE NoLoad
        /\ IF made = "ls" /\ (r.threw \/ r.isnull)
           THEN /\ objs' = IF r.threw THEN objs ELSE Append(objs, o)
                /\ UNCHANGED stores
           ELSE /\ objs' = IF made = "given"
                           THEN [objs EXCEPT ![b] = SeedObject(o, defaults, DOMAIN defaults)]
                           ELSE Append(objs, SeedObject(o, defaults, DOMAIN defaults))
                /\ stores' = [stores EXCEPT ![s] =
                      [persist |-> persist, given |-> given, backend |-> b,
                       mounted |-> FALSE, heard |-> FALSE]]
  /\ UNCHANGED ls
  /\ UNCHANGED appVars
  /\ UNCHANGED sideVars

Created(s) == stores[s] # NoStore

\* a read through an accessor of store s: backend.get(k)
StoreGet(s, k) == BackendGet(objs[stores[s].backend].gs, k)

\* an observer of store s subscribes: stateSubs.add(cb)
StoreMount(s) ==
  /\ Created(s)
  /\ ~stores[s].mounted
  /\ stores' = [stores EXCEPT ![s].mounted = TRUE]
  /\ load' = NoLoad
  /\ UNCHANGED <<ls, objs, lsid>>
  /\ UNCHANGED appVars
  /\ UNCHANGED sideVars

\* a registry kept by the backend object
StoreNotifyBackend(st, s) ==
  [t \in Stores |->
     [st[t] EXCEPT !.heard = (st[t].mounted /\ st[t].backend = st[s].backend)]]

\* a registry shared by every store
StoreNotifyAll(st, s) ==
  [t \in Stores |-> [st[t] EXCEPT !.heard = st[t].mounted]]

\* for (const f of stateSubs) f(update), stateSubs being the registry of s
StoreNotify(st, s) ==
  [t \in Stores |-> [st[t] EXCEPT !.heard = (t = s /\ st[t].mounted)]]

\* a persist that adds the mapping's properties to those of the record
PersistMerge(store, o) ==
  IF o.kind # "ls" THEN store
  ELSE [store EXCEPT ![o.name] =
          IF o.isnull THEN NullText
          ELSE IF @.t # "obj" THEN Stringify(o.gs)
          ELSE ObjText([k \in DOMAIN @.m \cup DOMAIN Stringify(o.gs).m |->
                          IF k \in DOMAIN Stringify(o.gs).m
                          THEN Stringify(o.gs).m[k] ELSE @.m[k]])]

\* persist: localStorage.setItem(keyName, JSON.stringify(this.gs))
Persist(store, o) ==
  IF o.kind # "ls" THEN store
  ELSE [store EXCEPT ![o.name] = IF o.isnull THEN NullText ELSE Stringify(o.gs)]

\* a set that also writes the record of the backend
StoreSetThrough(s, k, v) ==
  /\ Created(s)
  /\ objs' = [objs EXCEPT ![stores[s].backend] =
        [@ EXCEPT !.gs = BackendSet(@, k, v), !.setKeys = @ \cup {k}]]
  /\ stores' = StoreNotify(stores, s)
  /\ load' = NoLoad
  /\ ls' = Persist(ls, objs'[stores[s].backend])
  /\ UNCHANGED lsid
  /\ UNCHANGED appVars
  /\ UNCHANGED sideVars

\* a hook setter of store s: backend.set(k, v), then the dispatch
StoreSet(s, k, v) ==
  /\ Created(s)
  /\ objs' = [objs EXCEPT ![stores[s].backend] =
        [@ EXCEPT !.gs = BackendSet(@, k, v), !.setKeys = @ \cup {k}]]
  /\ stores' = StoreNotify(stores, s)
  /\ load' = NoLoad
  /\ UNCHANGED <<ls, lsid>>
  /\ UNCHANGED appVars
  /\ UNCHANGED sideVars

\* the listeners of the objs[i .. ] run in the order they were registered
RECURSIVE PersistAll(_, _)
PersistAll(store, i) ==
  IF i > Len(objs) THEN store ELSE PersistAll(Persist(store, objs[i]), i + 1)

\* listeners that persist on every event
FlushesAlways(ev) == TRUE

\* does the listener of event ev call persist
Flushes(ev) == ev # "visibilitychange:visible"

\* the host fires ev: every durable backend of the page hears it
Flush(ev) ==
  /\ objs # <<>>
  /\ ls' = IF Flushes(ev) THEN PersistAll(ls, 1) ELSE ls
  /\ load' = NoLoad
  /\ UNCHANGED <<objs, lsid, stores>>
  /\ UNCHANGED appVars
  /\ UNCHANGED sideVars

\* the page is loaded anew: the module state is gone, localStorage stays
Reload ==
  /\ objs # <<>>
  /\ objs' = <<>>
  /\ lsid' = 0
  /\ stores' = [s \in Stores |-> NoStore]
  /\ load' = NoLoad
  /\ UNCHANGED ls
  /\ UNCHANGED appVars
  /\ UNCHANGED sideVars

\* the records localStorage holds when the first page is loaded
InitTexts == {Absent, Malformed, NullText}

InitStores ==
  /\ phase = "new"
  /\ gs = [k \in AllKeys |-> Undef]
  /\ seed = NoSeed
  /\ lastWrite = [k \in AllKeys |-> Undef]
  /\ stateSubs = <<>>
  /\ status = [o \in AllObservers |-> "none"]
  /\ state = [h \in Hooks |-> Undef]
  /\ curState = [h \in Hooks |-> Undef]
  /\ cstate = [c \in AllHocs |-> [k \in Keys |-> Undef]]
  /\ stack = <<>>
  /\ nested = 0
  /\ subs = <<>>
  /\ ind = [o \in AllObservers |-> 0]
  /\ rendered = [h \in Hooks |-> Undef]
  /\ first = [h \in Hooks |-> Undef]
  /\ ls \in [Names -> InitTexts]
  /\ objs = <<>>
  /\ lsid = 0
  /\ stores = [s \in Stores |-> NoStore]
  /\ load = NoLoad
  /\ order = <<>>
  /\ multi = NoMulti
  /\ cbs = <<>>
  /\ cur = [o \in AllObservers |-> 0]

NextStores ==
  \/ \E n \in Names : LSNew(n)
  \/ \E s \in Stores, p \in {"false", "true"} : StoreCreate(s, p, 0)
  \/ \E s \in Stores, b \in 1 .. MaxBackends : StoreCreate(s, "object", b)
  \/ \E s \in Stores : StoreMount(s)
  \/ \E s \in Stores, k \in HookedKeys, v \in Values : StoreSet(s, k, v)
  \/ \E ev \in Events : Flush(ev)
  \/ Reload

SpecStores == InitStores /\ [][NextStores]_vars

\* =========================================================================
\* The multi-key hook: hook(key) with an array of keys sorts the array in
\* place and calls hooks[k]() for each entry in turn, assigning the pair it
\* returns to property k of the result object.  An object is modelled by
\* the sequence of its properties in insertion order (the keys of defaults
\* here are not integer-like, so this is the order in which Object.keys and
\* for...in list them).
\* =========================================================================
\* the key lists a caller may pass, repeated keys included
KeyLists == UNION {[1 .. n -> Keys] : n \in 0 .. MaxKeyList}

\* Array.prototype.sort() without a comparator orders strings by their
\* code units
KeyRank(k) == IF k = "a" THEN 1 ELSE IF k = "b" THEN 2 ELSE 3

RECURSIVE SortInsert(_, _)
SortInsert(s, x) ==
  IF s = <<>> THEN <<x>>
  ELSE IF KeyRank(s[Len(s)]) <= KeyRank(x) THEN Append(s, x)
  ELSE Append(SortInsert(SubSeq(s, 1, Len(s) - 1), x), s[Len(s)])

\* a hook that takes the keys in the caller's order
KeySortNone(s) == s

RECURSIVE KeySort(_)
KeySort(s) ==
  IF s = <<>> THEN <<>>
  ELSE SortInsert(KeySort(SubSeq(s, 1, Len(s) - 1)), s[Len(s)])

\* hooks[k]() at the first render of a component: [state, setter], state
\* being useState(backend.get(k)); the setter is named by its key
HookPair(g, k) == [k |-> k, value |-> BackendGet(g, k), setter |-> k]

\* ret[k] = pair: a new property goes last, an existing one keeps its place
PropAssign(ret, pair) ==
  IF \E i \in 1 .. Len(ret) : ret[i].k = pair.k
  THEN [i \in 1 .. Len(ret) |-> IF ret[i].k = pair.k THEN pair ELSE ret[i]]
  ELSE Append(ret, pair)

\* for (const k of keys) ret[k] = hooks[k]()
RECURSIVE MultiRet(_, _, _)
MultiRet(ret, keys, g) ==
  IF keys = <<>> THEN ret
  ELSE MultiRet(PropAssign(ret, HookPair(g, Head(keys))), Tail(keys), g)

\* the object hook(key) returns over backend content g
MultiCall(key, g) == MultiRet(<<>>, KeySort(key), g)

\* a component's first render calls hook(key) with an array
MultiHook(key) ==
  /\ phase = "ready"
  /\ multi' = [called |-> TRUE, key |-> key, sorted |-> KeySort(key),
               ret |-> MultiCall(key, gs)]
  /\ UNCHANGED <<cbs, cur>>
  /\ UNCHANGED appVars
  /\ UNCHANGED storeVars

NextMulti ==
  \/ \E d \in DefaultsSet : CreateState(d)
  \/ \E key \in KeyLists : MultiHook(key)

SpecMulti == Init /\ [][NextMulti]_vars

\* =========================================================================
\* The registry at the level of callbacks.  Every run of the hook's effect
\* creates a new closure cb, adds it, and returns the cleanup that deletes
\* that cb; the effect has no dependency list, so React runs the cleanup of
\* the previous run and then the effect again after every render.  A
\* wrapped component instance has one bound setLocalState, added by
\* componentDidMount and deleted by componentWillUnmount.  A callback is
\* named by its observer and a serial number; an observer that was
\* unmounted may be mounted again as a new instance.
\* =========================================================================
Cb(o, n) == [o |-> o, n |-> n]

\* a cleanup that deletes nothing
CbCleanupNone(s, cb) == s

\* return () => { stateSubs.delete(cb) }
CbCleanup(s, cb) == SetDelete(s, cb)

CbHookRender(h) ==
  /\ phase = "ready"
  /\ status[h] \in {"none", "unmounted"}
  /\ cur[h] < MaxRuns
  /\ status' = [status EXCEPT ![h] = "rendered"]
  /\ UNCHANGED <<multi, cbs, cur>>
  /\ UNCHANGED <<phase, gs, state, cstate>>
  /\ UNCHANGED setVars
  /\ UNCHANGED arrVars
  /\ UNCHANGED storeVars

\* the effect after the first render, or a re-render: the cleanup of the
\* previous run, then the effect
CbHookEffect(h) ==
  /\ phase = "ready"
  /\ status[h] \in {"rendered", "subscribed"}
  /\ cur[h] < MaxRuns
  /\ LET cleaned == IF status[h] = "subscribed"
                    THEN CbCleanup(cbs, Cb(h, cur[h])) ELSE cbs
     IN cbs' = SetAdd(cleaned, Cb(h, cur[h] + 1))
  /\ cur' = [cur EXCEPT ![h] = @ + 1]
  /\ status' = [status EXCEPT ![h] = "subscribed"]
  /\ UNCHANGED multi
  /\ UNCHANGED <<phase, gs, state, cstate>>
  /\ UNCHANGED setVars
  /\ UNCHANGED arrVars
  /\ UNCHANGED storeVars

CbHookUnmount(h) ==
  /\ phase = "ready"
  /\ status[h] = "subscribed"
  /\ cbs' = CbCleanup(cbs, Cb(h, cur[h]))
  /\ status' = [status EXCEPT ![h] = "unmounted"]
  /\ UNCHANGED <<multi, cur>>
  /\ UNCHANGED <<phase, gs, state, cstate>>
  /\ UNCHANGED setVars
  /\ UNCHANGED arrVars
  /\ UNCHANGED storeVars

\* a new instance: the class field setLocalState is bound once
CbHocConstruct(c) ==
  /\ phase = "ready"
  /\ status[c] \in {"none", "unmounted"}
  /\ cur[c] < MaxRuns
  /\ cur' = [cur EXCEPT ![c] = @ + 1]
  /\ status' = [status EXCEPT ![c] = "rendered"]
  /\ UNCHANGED <<multi, cbs>>
  /\ UNCHANGED <<phase, gs, state, cstate>>
  /\ UNCHANGED setVars
  /\ UNCHANGED arrVars
  /\ UNCHANGED storeVars

CbComponentDidMount(c) ==
  /\ phase = "ready"
  /\ status[c] = "rendered"
  /\ cbs' = SetAdd(cbs, Cb(c, cur[c]))
  /\ status' = [status EXCEPT ![c] = "subscribed"]
  /\ UNCHANGED <<multi, cur>>
  /\ UNCHANGED <<phase, gs, state, cstate>>
  /\ UNCHANGED setVars
  /\ UNCHANGED arrVars
  /\ UNCHANGED storeVars

CbComponentWillUnmount(c) ==
  /\ phase = "ready"
  /\ status[c] = "subscribed"
  /\ cbs' = SetDelete(cbs, Cb(c, cur[c]))
  /\ status' = [status EXCEPT ![c] = "unmounted"]
  /\ UNCHANGED <<multi, cur>>
  /\ UNCHANGED <<phase, gs, state, cstate>>
  /\ UNCHANGED setVars
  /\ UNCHANGED arrVars
  /\ UNCHANGED storeVars

NextCallbacks ==
  \/ \E d \in DefaultsSet : CreateState(d)
  \/ \E h \in Hooks : CbHookRender(h)
  \/ \E h \in Hooks : CbHookEffect(h)
  \/ \E h \in Hooks : CbHookUnmount(h)
  \/ \E c \in Hocs : CbHocConstruct(c)
  \/ \E c \in Hocs : CbComponentDidMount(c)
  \/ \E c \in Hocs : CbComponentWillUnmount(c)

SpecCallbacks == Init /\ [][NextCallbacks]_vars

\* ================================================================ claims
Frames == {stack[i] : i \in 1 .. Len(stack)}

Watches(o, k) == IF o \in Hooks THEN HookKey(o) = k ELSE k \in HocKeys(o)

\* the value observer o holds locally for key k
Local(o, k) == IF o \in Hooks THEN state[o] ELSE cstate[o][k]

\* the registry positions the iterator of frame f has passed
Passed(f) == {stateSubs[i] : i \in 1 .. Min(f.pos, Len(stateSubs))}

\* the step is an iteration of the innermost loop, invoking o
Invokes(o) ==
  /\ stack # <<>>
  /\ Len(stack') = Len(stack)
  /\ stack'[Len(stack)].pos = Top.pos + 1
  /\ stateSubs[Top.pos + 1] = o

\* the step is the return of the innermost setter
Returns == stack # <<>> /\ Len(stack') = Len(stack) - 1

\* C1 (last-write-wins): after createState and any sequence of writes, a
\* read of a key from the backend returns the value resolved by the most
\* recent write to that key (the value construction left, before any write).
C1_LastWriteWins ==
  phase = "ready" => \A k \in Keys : BackendGet(gs, k) = lastWrite[k]

\* a hook write that replaced a different value has been committed and
\* fully dispatched
C1_Witness ==
  /\ stack # <<>>
  /\ Top.kind = "hook"
  /\ LoopDone(Top)
  /\ \E k \in DOMAIN Top.update :
       Top.pre # Top.update[k] /\ BackendGet(gs, k) = Top.update[k]

\* C2 (seed-without-clobber): right after createState(defaults, backend)
\* every key of defaults holds defaults[key] if the backend had no value for
\* it and the backend's prior value otherwise, and no key that had a value
\* was changed.
C2_SeedWithoutClobber ==
  seed # NoSeed =>
    LET s == seed[1] IN
    /\ \A k \in DOMAIN s.defaults :
         BackendGet(gs, k) = IF s.prior[k] = Undef THEN s.defaults[k] ELSE s.prior[k]
    /\ \A k \in Keys : s.prior[k] # Undef => BackendGet(gs, k) = s.prior[k]

\* construction found one key absent and one key present with a value
\* other than its default
C2_Witness ==
  /\ seed # NoSeed
  /\ seed[1].prior["a"] = Undef
  /\ seed[1].prior["b"] # Undef
  /\ seed[1].prior["b"] # seed[1].defaults["b"]

\* C3 (fan-out): while the registry is not changed during the call, a hook
\* setter call for key k with value v invokes every registered callback
\* exactly once, in one pass, each with the update {k: v} (an observer of k
\* holds v when its callback returns), and the setter returns only after all
\* of them were invoked.
C3_Counts(f) ==
  /\ f.start = stateSubs
  /\ \A o \in Observers : f.calls[o] = IF o \in Passed(f) THEN 1 ELSE 0

C3_Step ==
  /\ \A o \in Observers :
       (Invokes(o) /\ Top.kind \in {"hook", "hookfn"}) =>
         \A k \in DOMAIN Top.update : Watches(o, k) => Local(o, k)' = Top.update[k]
  /\ (Returns /\ Top.kind \in {"hook", "hookfn"} /\ Top.mut = "none") =>
       \A o \in Range(Top.start) : Top.calls[o] = 1

C3_FanOut ==
  /\ [](\A f \in Frames :
          (f.kind \in {"hook", "hookfn"} /\ f.mut = "none") =>
            (Cardinality(DOMAIN f.update) = 1 /\ C3_Counts(f)))
  /\ [][C3_Step]_vars

\* a hook setter's loop has ended with three observers subscribed
C3_Witness ==
  /\ stack # <<>>
  /\ Top.kind \in {"hook", "hookfn"}
  /\ Top.mut = "none"
  /\ LoopDone(Top)
  /\ Len(Top.start) = 3
  /\ \A o \in Observers : Top.calls[o] = 1

\* C4 (commit-before-notify): whenever a callback is about to be invoked
\* with an update, the backend holds, for every key of the update, the value
\* the update carries.
C4_CommitBeforeNotify ==
  \A f \in Frames :
    (f = Top /\ ~LoopDone(f)) =>
      \A k \in DOMAIN f.update : BackendGet(gs, k) = f.update[k]

\* C5 (unsubscribe, Set-based store): an observer's unsubscribe removes
\* that observer's callback and nothing else: the other callbacks stay
\* registered, in the same order.
C5_Unsubscribes(o) == status[o] = "subscribed" /\ status'[o] = "unmounted"

C5_RemovesExactly(o) ==
  LET i == IndexOf(stateSubs, o) IN
  /\ i > 0
  /\ Len(stateSubs') = Len(stateSubs) - 1
  /\ \A j \in 1 .. Len(stateSubs') :
       stateSubs'[j] = stateSubs[IF j < i THEN j ELSE j + 1]

C5_UnsubscribeExact ==
  [][\A o \in Observers : C5_Unsubscribes(o) => C5_RemovesExactly(o)]_vars

\* one observer has unsubscribed and two others are still registered
C5_Witness ==
  /\ \E o \in Observers : status[o] = "unmounted"
  /\ Len(stateSubs) = 2

\* C6 (unsubscribe, array-based store): after any sequence of subscribes
\* and unsubscribes the array holds exactly the callbacks of the observers
\* that are still mounted, so a write calls every mounted observer and no
\* unmounted one.
C6_ArrayUnsubscribeExact ==
  Range(subs) = {o \in Observers : status[o] = "subscribed"}

\* C7 (unsubscribe during dispatch): when observers remove themselves from
\* inside their own callbacks while a loop runs, every callback registered
\* when the loop began is still invoked exactly once by that loop (those
\* removed were invoked before they left), and a removed observer is
\* invoked by no later loop.
C7_SelfUnsubscribe ==
  /\ \A f \in Frames :
       f.mut = "self" =>
         /\ \A o \in Observers :
              f.calls[o] = IF o \in Range(f.start) /\ (o \in Passed(f) \/ o \notin Range(stateSubs))
                           THEN 1 ELSE 0
         /\ (f = Top /\ LoopDone(f)) => \A o \in Range(f.start) : f.calls[o] = 1
  /\ \A f \in Frames :
       f.mut # "other" => \A o \in Observers : o \notin Range(f.start) => f.calls[o] = 0
  /\ \A o \in Observers : status[o] = "unmounted" => o \notin Range(stateSubs)

\* a loop over three callbacks has ended after the first one invoked
\* removed itself
C7_Witness ==
  /\ stack # <<>>
  /\ Top.mut = "self"
  /\ LoopDone(Top)
  /\ Len(Top.start) = 3
  /\ Top.start[1] \notin Range(stateSubs)
  /\ Len(stateSubs) = 2

\* C8 (batched write): one setGlobalState call with two requested keys
\* hands every registered callback one update object holding both keys and
\* invokes each callback exactly once; a hook watching one of the keys holds
\* the new value after that single invocation.
C8_Step ==
  /\ \A o \in Observers :
       (Invokes(o) /\ Top.kind \in {"hoc", "hocfn"}) =>
         \A k \in DOMAIN Top.update : Watches(o, k) => Local(o, k)' = Top.update[k]
  /\ (Returns /\ Top.kind \in {"hoc", "hocfn"} /\ Top.mut = "none") =>
       \A o \in Range(Top.start) : Top.calls[o] = 1

C8_BatchedWrite ==
  /\ [](\A f \in Frames :
          (f.kind \in {"hoc", "hocfn"} /\ f.mut = "none") => C3_Counts(f))
  /\ [][C8_Step]_vars

\* a two-key setGlobalState has notified all three observers
C8_Witness ==
  /\ stack # <<>>
  /\ Top.kind = "hoc"
  /\ DOMAIN Top.update = {"a", "b"}
  /\ Top.mut = "none"
  /\ LoopDone(Top)
  /\ Len(Top.start) = 3
  /\ \A o \in Observers : Top.calls[o] = 1

\* C9 (functional update): a hook setter called with prev => prev + 1
\* commits the backend's value of the key just before the call, plus one.
C9_FunctionalUpdate ==
  \A f \in Frames :
    f.kind = "hookfn" => \A k \in DOMAIN f.update : f.update[k] = f.pre + 1

\* C10 (observers in sync): when no write is in progress, every subscribed
\* observer holds, for every key it watches, the backend's value.
C10_InSync ==
  Idle =>
    \A o \in Observers :
      status[o] = "subscribed" =>
        \A k \in Keys : Watches(o, k) => Local(o, k) = BackendGet(gs, k)

\* C11 (wrapper re-invoked on change): when the dispatch of a write that
\* changed the backend's value of a key has invoked the callback of a
\* mounted wrapped component watching that key, that callback has called
\* this.setState, whoever issued the write.
C11_ReinvokedOnChange ==
  stack # <<>> =>
    \A c \in Hocs :
      (Top.run = c /\ status[c] = "subscribed"
         /\ \E k \in Top.changed : Watches(c, k)) => Top.hot

\* C12 (array-based hook, value last seen): after any sequence of writes to
\* its key a subscribed hook's state is the last written value; in
\* particular, whenever the backend again holds the value the hook had at
\* its first render (writes A, B, A), the hook's state is that value.
C12_LastSeen ==
  \A h \in Hooks :
    (status[h] = "subscribed" /\ h \in Range(subs)
       /\ BackendGet(gs, HookKey(h)) = first[h]) => state[h] = first[h]

\* what a fresh LocalStorageBackend constructed after the step under the
\* record name of objs[i] loads is, for every key set on objs[i], the value
\* last set
C13_LoadsBack(i) ==
  LET fresh == LSLoad(ls'[objs[i].name])
  IN \A k \in objs[i].setKeys :
       /\ ~fresh.threw
       /\ ~fresh.isnull
       /\ BackendGet(fresh.gs, k) = BackendGet(objs[i].gs, k)

\* no durable backend with the record name of objs[i] was constructed in
\* the page after objs[i]
C13_Latest(i) ==
  \A j \in (i + 1) .. Len(objs) :
    ~(objs[j].kind = "ls" /\ objs[j].name = objs[i].name)

C14_FailOpenLoad ==
  load.found \in {"absent", "malformed", "null"} =>
    (~load.threw /\ ~load.isnull /\ load.empty)

\* C15 (isolation): a write through a store changes no value read through
\* a store created over another backend object and invokes no subscriber of
\* that store, whether the two were created in memory or with persist = true.
C15_Isolated ==
  [][\A s \in Stores, k \in HookedKeys, v \in Values :
       StoreSet(s, k, v) =>
         \A t \in Stores :
           (t # s /\ Created(t) /\ stores[t].backend # stores[s].backend) =>
             /\ \A j \in AllKeys : StoreGet(t, j)' = StoreGet(t, j)
             /\ ~stores'[t].heard]_vars

\* two stores created with persist = true, both with a subscriber; each has
\* written its key, s1 last, and each holds its own value
C15_Witness ==
  /\ stores["s1"].persist = "true"
  /\ stores["s2"].persist = "true"
  /\ stores["s1"].mounted
  /\ stores["s2"].mounted
  /\ stores["s1"].heard
  /\ ~stores["s2"].heard
  /\ StoreGet("s1", "a") = MaxVal
  /\ StoreGet("s2", "a") = 0

\* C16 (shared backend): two stores created over the same backend object
\* read the same values, a value written through either is read through the
\* other, and creating the second store changes no value the object
\* already holds.
C16_Shares(s, t) ==
  /\ s # t
  /\ Created(s)
  /\ Created(t)
  /\ stores[s].given # 0
  /\ stores[s].given = stores[t].given

C16_Step ==
  /\ \A s \in Stores, k \in HookedKeys, v \in Values :
       StoreSet(s, k, v) =>
         \A t \in Stores : C16_Shares(s, t) => StoreGet(t, k)' = v
  /\ \A t \in Stores, b \in 1 .. MaxBackends :
       StoreCreate(t, "object", b) =>
         \A s \in Stores :
           (Created(s) /\ stores[s].given = b) =>
             \A k \in Keys :
               StoreGet(s, k) # Undef => StoreGet(s, k)' = StoreGet(s, k)

C16_SharedBackend ==
  /\ [](\A s, t \in Stores :
          C16_Shares(s, t) => \A k \in AllKeys : StoreGet(s, k) = StoreGet(t, k))
  /\ [][C16_Step]_vars

\* s1 was created over an object and seeded b, s2 was created over the same
\* object without overwriting b, and s2 has written a
C16_Witness ==
  /\ C16_Shares("s1", "s2")
  /\ objs[stores["s1"].backend].setKeys = Keys
  /\ StoreGet("s1", "b") = 0
  /\ StoreGet("s1", "a") = MaxVal
  /\ stores["s2"].heard

\* C17 (double unsubscribe): invoking an observer's unsubscribe again after
\* it has unsubscribed, a dispatch being in progress or not, leaves the
\* registry and every loop in progress as they were.
C17_DoubleUnsubscribe ==
  [][\A o \in Observers :
       (status[o] = "unmounted" /\ status'[o] = "unmountedTwice") =>
         (stateSubs' = stateSubs /\ stack' = stack)]_vars

\* an unsubscribe was invoked a second time while a loop over two other
\* callbacks was in progress
C17_Witness ==
  /\ \E o \in Observers : status[o] = "unmountedTwice"
  /\ stack # <<>>
  /\ ~LoopDone(Top)
  /\ Len(stateSubs) = 2

\* C18 (a write touches only its keys): a hook setter call for key k, or a
\* setGlobalState call, leaves the backend's value of every key it does not
\* write as it was.
C18_OtherKeysUnchanged ==
  [][Len(stack') = Len(stack) + 1 =>
       \A j \in AllKeys \ DOMAIN stack'[Len(stack')].update :
         BackendGet(gs', j) = BackendGet(gs, j)]_vars

\* a hook setter has just changed key a to MaxVal while key b holds 0
C18_Witness ==
  /\ stack # <<>>
  /\ Top.kind = "hook"
  /\ Top.pos = 0
  /\ Top.changed = {"a"}
  /\ BackendGet(gs, "a") = MaxVal
  /\ BackendGet(gs, "b") = 0

\* C19 (fixed key set): after createState no step adds a key to or removes
\* a key from the backend's mapping, whatever object setGlobalState is
\* given.
C19_KeySetFixed ==
  [][phase = "ready" =>
       {k \in AllKeys : BackendGet(gs', k) # Undef}
         = {k \in AllKeys : BackendGet(gs, k) # Undef}]_vars

\* setGlobalState was given an object with a property that is no key of
\* defaults, and the backend has no such key
C19_Witness ==
  /\ stack # <<>>
  /\ Top.kind = "hoc"
  /\ "z" \in Top.asked
  /\ Top.update # EmptyMap
  /\ BackendGet(gs, "z") = Undef

\* C20 (defaults defined): in every state after createState every key of
\* defaults has a defined value in the backend (no accessor of the model
\* writes undefined).
C20_KeysDefined ==
  phase = "ready" => \A k \in Keys : BackendGet(gs, k) # Undef

\* createState has just run over a backend that held no key of defaults
C20_Witness ==
  /\ phase = "ready"
  /\ seed # NoSeed
  /\ \A k \in Keys : seed[1].prior[k] = Undef
  /\ \A k \in Keys : BackendGet(gs, k) = seed[1].defaults[k]

\* q lists the same keys as s, each as often, in any order
C21_IsPermutation(q, s) ==
  /\ Len(q) = Len(s)
  /\ \A k \in Keys :
       Cardinality({i \in 1 .. Len(q) : q[i] = k})
         = Cardinality({i \in 1 .. Len(s) : s[i] = k})

\* C21 (multi-key read is order-independent): the object hook(keys) returned
\* is the object every permutation of keys returns; its properties are the
\* keys of the list, in sorted order, each holding the pair the single-key
\* accessor of that key returns.
C21_OrderIndependent ==
  multi.called =>
    /\ \A q \in KeyLists :
         C21_IsPermutation(q, multi.key) => MultiCall(q, gs) = multi.ret
    /\ {multi.ret[i].k : i \in 1 .. Len(multi.ret)} = Range(multi.key)
    /\ \A i \in 1 .. Len(multi.ret) - 1 :
         KeyRank(multi.ret[i].k) < KeyRank(multi.ret[i + 1].k)
    /\ \A i \in 1 .. Len(multi.ret) : multi.ret[i] = HookPair(gs, multi.ret[i].k)

\* hook(['b', 'a', 'b']) was called while a and b hold different values
C21_Witness ==
  /\ multi.called
  /\ multi.key = <<"b", "a", "b">>
  /\ BackendGet(gs, "a") # BackendGet(gs, "b")

\* C22 (no write-through): the record of a durable backend changes only in
\* a step in which a flush event fires; a set through a store, like every
\* other step, leaves every record as it was.
C22_NoWriteThrough ==
  [][/\ ls' # ls => \E ev \in Events : Flushes(ev) /\ Flush(ev)
     /\ (objs' # objs /\ Len(objs') = Len(objs)) => ls' = ls]_vars

\* a durable backend whose record was flushed with a = 0 has since been set
\* to a = MaxVal, and its record still holds a = 0
C22_Witness ==
  \E s \in Stores :
    /\ Created(s)
    /\ stores[s].heard
    /\ objs[stores[s].backend].kind = "ls"
    /\ "a" \in objs[stores[s].backend].setKeys
    /\ StoreGet(s, "a") = MaxVal
    /\ ls[objs[stores[s].backend].name].t = "obj"
    /\ Parse(ls[objs[stores[s].backend].name])["a"] = 0

\* JSON.stringify of the whole in-memory mapping of backend object o
C23_Serialized(o) == IF o.isnull THEN NullText ELSE Stringify(o.gs)

\* C23 (flush is an idempotent full overwrite): the flush of a durable
\* backend sets its record to the serialization of its whole in-memory
\* mapping, whatever the record held, and leaves the other records alone;
\* a second flush changes nothing, neither of one backend nor, when a flush
\* event fires twice, of all of them.
C23_FlushOnce ==
  \A i \in 1 .. Len(objs) :
    objs[i].kind = "ls" =>
      LET once == Persist(ls, objs[i]) IN
      /\ once[objs[i].name] = C23_Serialized(objs[i])
      /\ \A n \in Names \ {objs[i].name} : once[n] = ls[n]
      /\ Persist(once, objs[i]) = once

C23_FlushStep ==
  \A ev \in Events :
    (Flushes(ev) /\ Flush(ev)) =>
      /\ PersistAll(ls', 1) = ls'
      /\ \A i \in 1 .. Len(objs) :
           (objs[i].kind = "ls" /\ C13_Latest(i)) =>
             ls'[objs[i].name] = C23_Serialized(objs[i])

C23_FlushOverwrites == []C23_FlushOnce /\ [][C23_FlushStep]_vars

\* the record of a live durable backend holds a property that the
\* backend's mapping does not have
C23_Witness ==
  \E i \in 1 .. Len(objs) :
    /\ objs[i].kind = "ls"
    /\ ~objs[i].isnull
    /\ ls[objs[i].name].t = "obj"
    /\ \E k \in DOMAIN ls[objs[i].name].m : BackendGet(objs[i].gs, k) = Undef

\* C24 (flush triggers): when pagehide or beforeunload fires, or
\* visibilitychange with the document hidden, the record of every durable
\* backend (the latest constructed under its name) is the serialization of
\* its mapping; when visibilitychange fires with the document visible every
\* record stays as it was.
C24_FlushTriggers ==
  [][/\ \A ev \in {"pagehide", "beforeunload", "visibilitychange:hidden"} :
          Flush(ev) =>
            \A i \in 1 .. Len(objs) :
              (objs[i].kind = "ls" /\ ~objs[i].isnull /\ C13_Latest(i)) =>
                ls'[objs[i].name] = Stringify(objs[i].gs)
     /\ Flush("visibilitychange:visible") => ls' = ls]_vars

\* a value set through a store over a durable backend has reached the
\* backend's record
C24_Witness ==
  \E s \in Stores :
    /\ Created(s)
    /\ objs[stores[s].backend].kind = "ls"
    /\ "a" \in objs[stores[s].backend].setKeys
    /\ StoreGet(s, "a") # StoreDefaults(s)["a"]
    /\ ls[objs[stores[s].backend].name] = Stringify(objs[stores[s].backend].gs)

\* C25 (auto-generated record names): the n-th durable backend created in a
\* page session without an explicit name has the name 'rusGlobalState'
\* followed by n - 1, however many backends were created with an explicit
\* name before it.
C25_AutoNames ==
  \A i \in 1 .. Len(objs) :
    objs[i].auto =>
      objs[i].name = DefaultName(Cardinality({j \in 1 .. i - 1 : objs[j].auto}))

\* C26 (notification order is subscription order): every loop invokes the
\* subscribers in the order in which their currently registered callbacks
\* were added; while the registry is unchanged the i-th invocation of a
\* loop is that of the i-th subscriber in that order, so two writes with no
\* subscribe or unsubscribe between them invoke them in the same order.
C26_SubscriptionOrder ==
  [][\A o \in Observers :
       Invokes(o) =>
         /\ o \in Range(order)
         /\ Top.run \in Range(order) => IndexOf(order, Top.run) < IndexOf(order, o)
         /\ Top.mut = "none" => o = order[Top.pos + 1]]_vars

\* h1 has re-run its effect after the other two subscribed, and a loop has
\* invoked c1, h2 and h1, in this order
C26_Witness ==
  /\ stack # <<>>
  /\ Top.mut = "none"
  /\ LoopDone(Top)
  /\ Top.run = "h1"
  /\ order = <<"c1", "h2", "h1">>
  /\ \A o \in Observers : Top.calls[o] = 1

\* C27 (no subscriber leak): after any sequence of mounts, re-renders and
\* unmounts the registry holds, for every observer that is mounted and has
\* subscribed, exactly one callback, the one of its latest effect run or
\* instance, and no callback of any other observer.
C27_NoLeak ==
  \A o \in Observers :
    LET mine == {i \in 1 .. Len(cbs) : cbs[i].o = o} IN
    IF status[o] = "subscribed"
    THEN Cardinality(mine) = 1 /\ Cb(o, cur[o]) \in Range(cbs)
    ELSE mine = {}

\* h1 has re-rendered twice, h2 is mounted again after an unmount and c1
\* was unmounted
C27_Witness ==
  /\ status["h1"] = "subscribed"
  /\ cur["h1"] = 3
  /\ status["h2"] = "subscribed"
  /\ cur["h2"] = 2
  /\ status["c1"] = "unmounted"
  /\ Len(cbs) = 2

\* C28 (no write is missed at mount): at the step in which an observer that
\* has read its initial value subscribes, no write being in progress, its
\* local value for every key it watches equals the backend's value,
\* whatever was written since it read.
C28_NoMissedWrite ==
  [][\A o \in Observers :
       (status[o] = "rendered" /\ status'[o] = "subscribed") =>
         \A k \in Keys :
           Watches(o, k) => Local(o, k)' = BackendGet(gs', k)]_vars

\* C29 (notifications follow commit order under re-entrancy): when the
\* outermost write returns after a write was issued from inside one of its
\* callbacks, every hook that is subscribed to a key the outermost write
\* wrote holds the backend's value of that key: the last update it received
\* for the key is the last one committed.
C29_CommitOrder ==
  [][(Returns /\ Len(stack) = 1 /\ nested > 0) =>
       \A h \in Hooks :
         (status[h] = "subscribed" /\ HookKey(h) \in DOMAIN Top.update) =>
           state[h] = BackendGet(gs, HookKey(h))]_vars

\* C30 (registries are per store): a write through a store invokes that
\* store's subscriber and not the subscriber of another store created over
\* the same backend object, while the other store reads the written value.
C30_PerStoreRegistry ==
  [][\A s \in Stores, k \in HookedKeys, v \in Values :
       StoreSet(s, k, v) =>
         /\ stores'[s].heard = stores[s].mounted
         /\ \A t \in Stores :
              (t # s /\ Created(t) /\ stores[t].backend = stores[s].backend) =>
                /\ ~stores'[t].heard
                /\ StoreGet(t, k)' = v]_vars

\* s1 and s2 share a backend object and both have a subscriber; the latest
\* write, of MaxVal to a, went through s1 and invoked only s1's subscriber
C30_Witness ==
  /\ Created("s1")
  /\ Created("s2")
  /\ stores["s1"].backend = stores["s2"].backend
  /\ stores["s1"].mounted
  /\ stores["s2"].mounted
  /\ stores["s1"].heard
  /\ ~stores["s2"].heard
  /\ StoreGet("s2", "a") = MaxVal
  /\ StoreGet("s2", "b") = 0

\* C31 (setGlobalState writes only requested keys): for a wrapped component
\* created for key list K, a setGlobalState call commits and dispatches
\* exactly the properties of the resolved update whose key is in K, with
\* their values; every other key keeps its backend value and is not in the
\* dispatched update.  When no property is in K, or the update resolved to
\* null, the backend is unchanged and the dispatched update is empty, and
\* while the registry is unchanged every callback registered at the call
\* has been invoked once when the call returns.
C31_Call(c, n) ==
  LET r == HocResolve(c, n)
      f == stack'[Len(stack')]
      req == IF r = Null THEN {} ELSE DOMAIN r \cap HocKeys(c)
  IN /\ DOMAIN f.update = req
     /\ \A k \in req : f.update[k] = r[k] /\ BackendGet(gs', k) = r[k]
     /\ \A k \in AllKeys \ req : BackendGet(gs', k) = BackendGet(gs, k)
     /\ req = {} => (gs' = gs /\ f.update = EmptyMap)

C31_Step ==
  /\ \A c \in NarrowHocs :
       \A n \in NarrowInputs(c) : SetGlobalState(c, n) => C31_Call(c, n)
  /\ (Returns /\ Top.kind = "hoc" /\ Top.update = EmptyMap /\ Top.mut = "none") =>
       \A o \in Range(Top.start) : Top.calls[o] = 1

C31_OnlyRequestedKeys == [][C31_Step]_vars

\* setGlobalState({a: .., b: ..}) of a component wrapped for key a alone has
\* dispatched an update holding only a to the component and to both hooks,
\* and b has kept a value other than the one the call carried for a
C31_Witness ==
  /\ stack # <<>>
  /\ Top.kind = "hoc"
  /\ Top.asked = {"a", "b"}
  /\ DOMAIN Top.update = {"a"}
  /\ Top.mut = "none"
  /\ LoopDone(Top)
  /\ Len(Top.start) = 3
  /\ \A o \in Range(Top.start) : Top.calls[o] = 1
  /\ BackendGet(gs, "b") # Top.update["a"]

====
